---- MODULE Spec2Model ----
(***************************************************************************)
(* A model of the errorvec crate: the ErrorVec<E> container                *)
(* (src/src/errorvec.rs), the ResultIterator adapter (src/src/resiter.rs)  *)
(* and the ErrorVec<T> declared in the crate root (src/src/lib.rs).        *)
(*                                                                         *)
(* Text is modelled as a sequence of one-character strings, so that        *)
(* formatting, trimming and concatenation are computed, not assumed.       *)
(***************************************************************************)
EXTENDS Integers, Sequences, FiniteSets, TLC

\* ------------------------------------------------------------------------
\* Bounds of the model
\* ------------------------------------------------------------------------

\* longest input sequence fed to into_errorvec_result
MaxLen == 3

\* largest number of errors a container of the ErrorVec API model holds
MaxErrs == 3

\* ------------------------------------------------------------------------
\* State
\* ------------------------------------------------------------------------

\* into_errorvec_result beside the hand-written loop of the documentation
VARIABLES
    input,      \* the elements the iterator yields, in order
    pos,        \* how many elements the for loop has taken from the iterator
    visited,    \* the indices of the elements taken so far, in the order taken
    oks,        \* local oks
    ev,         \* local ev
    pc,         \* "loop" while the for loop runs, "done" once returned
    result,     \* the value returned, Pending before the return
    hpos,       \* the hand-written loop: elements handled so far
    contents,   \* the hand-written loop: local contents
    errs,       \* the hand-written loop: local errs
    hpc,        \* the hand-written loop: "loop" or "done"
    hresult     \* the hand-written loop: the value returned

drainVars == <<input, pos, visited, oks, ev, pc, result,
               hpos, contents, errs, hpc, hresult>>

\* a container under the public interface of ErrorVec<E>
VARIABLES
    vec,        \* the errors the container holds
    live,       \* FALSE once a consuming method has taken the container
    origin,     \* "default" or "from": how the container was created
    appended,   \* whether an error was appended since the creation
    call        \* the last call made on the container, with what it returned

vecVars == <<vec, live, origin, appended, call>>

\* the ErrorVec<T> of the crate root
VARIABLES
    root,       \* the errors the crate root's ErrorVec holds
    rootText    \* Some(text) once the container was rendered, None before

rootVars == <<root, rootText>>

vars == <<drainVars, vecVars, rootVars>>

\* ------------------------------------------------------------------------
\* Values
\* ------------------------------------------------------------------------

\* Result<T, E>
Ok(v) == [tag |-> "Ok", val |-> v]

Err(e) == [tag |-> "Err", err |-> e]

\* Option<T>
Some(v) == [some |-> TRUE, val |-> v]

None == [some |-> FALSE]

\* the value () of the unit type
Unit == <<>>

\* the error values E used by the model: displayable messages, among them
\* messages that end in whitespace, hold inner whitespace, or are blank
Errs == { <<"x">>, <<"y", " ", "\n">>, <<"a", " ", "b">>, <<" ">> }

\* the success payloads O used by the model
OkVals == {1, 2}

Outcomes == {Ok(v) : v \in OkVals} \cup {Err(e) : e \in Errs}

SeqsUpTo(S, n) == UNION {[1..k -> S] : k \in 0..n}

\* ------------------------------------------------------------------------
\* ErrorVec<E> (src/src/errorvec.rs): the newtype is its Vec<E>
\* ------------------------------------------------------------------------

\* Default::default
default == <<>>

\* a faulty variant: the error is put in front of the errors held
push_front(self, e) == <<e>> \o self

\* Vec::push through DerefMut
push(self, e) == Append(self, e)

\* Vec::is_empty through Deref
is_empty(self) == Len(self) = 0

\* a faulty variant: the emptiness test is inverted
into_result_with_inverted(self, value) ==
    IF ~is_empty(self) THEN Ok(value) ELSE Err(self)

\* a faulty variant: the container of the failure has lost its first error
into_result_with_drops_first(self, value) ==
    IF is_empty(self) THEN Ok(value) ELSE Err(Tail(self))

\* into_result_with: the returned Result
into_result_with(self, value) ==
    IF is_empty(self) THEN Ok(value) ELSE Err(self)

\* a faulty variant: the collapse ignores the container
into_result_always_ok(self) == Ok(Unit)

\* into_result: the returned Result
into_result(self) == into_result_with(self, Unit)

\* a faulty variant: an error already held is not pushed again
take_error_dedup(self, r) ==
    IF r.tag = "Ok"
    THEN [ret |-> Some(r.val), self |-> self]
    ELSE [ret |-> None,
          self |-> IF \E i \in 1..Len(self) : self[i] = r.err
                   THEN self ELSE push(self, r.err)]

\* a faulty variant: the error goes to the front of the container
take_error_front(self, r) ==
    IF r.tag = "Ok"
    THEN [ret |-> Some(r.val), self |-> self]
    ELSE [ret |-> None, self |-> <<r.err>> \o self]

\* take_error: the returned Option and the container after the call
take_error(self, r) ==
    IF r.tag = "Ok"
    THEN [ret |-> Some(r.val), self |-> self]
    ELSE [ret |-> None, self |-> push(self, r.err)]

\* Result::map as used by into_errorvec_result: .map(|()| oks)
map_to(res, list) == IF res.tag = "Ok" THEN Ok(list) ELSE res

\* ------------------------------------------------------------------------
\* ResultIterator::into_errorvec_result (src/src/resiter.rs), one loop
\* iteration per step, beside the hand-written loop of the ErrorVec
\* documentation (take_error per element, then into_result_with)
\* ------------------------------------------------------------------------

Pending == [tag |-> "Pending"]

InitDrain ==
    /\ input \in SeqsUpTo(Outcomes, MaxLen)
    /\ pos = 0
    /\ visited = <<>>
    /\ oks = <<>>
    /\ ev = default
    /\ pc = "loop"
    /\ result = Pending
    /\ hpos = 0
    /\ contents = <<>>
    /\ errs = default
    /\ hpc = "loop"
    /\ hresult = Pending

\* a faulty variant: the loop returns at the first Err
ForLoopShortCircuit ==
    /\ pc = "loop"
    /\ pos < Len(input)
    /\ LET r == input[pos + 1]
           t == take_error(ev, r)
       IN  /\ pos' = pos + 1
           /\ visited' = Append(visited, pos + 1)
           /\ ev' = t.self
           /\ oks' = IF t.ret.some THEN Append(oks, t.ret.val) ELSE oks
           /\ pc' = IF t.ret.some THEN "loop" ELSE "done"
           /\ result' = IF t.ret.some THEN result ELSE Err(t.self)
    /\ UNCHANGED <<input, hpos, contents, errs, hpc, hresult,
                 vecVars, rootVars>>

\* a faulty variant: the Ok value is not kept
ForLoopDropsOk ==
    /\ pc = "loop"
    /\ pos < Len(input)
    /\ LET r == input[pos + 1]
           t == take_error(ev, r)
       IN  /\ pos' = pos + 1
           /\ visited' = Append(visited, pos + 1)
           /\ ev' = t.self
           /\ oks' = oks
    /\ UNCHANGED <<input, pc, result, hpos, contents, errs, hpc, hresult,
                 vecVars, rootVars>>

\* one iteration of `for result in self`
ForLoop ==
    /\ pc = "loop"
    /\ pos < Len(input)
    /\ LET r == input[pos + 1]
           t == take_error(ev, r)
       IN  /\ pos' = pos + 1
           /\ visited' = Append(visited, pos + 1)
           /\ ev' = t.self
           /\ oks' = IF t.ret.some THEN Append(oks, t.ret.val) ELSE oks
    /\ UNCHANGED <<input, pc, result, hpos, contents, errs, hpc, hresult,
                 vecVars, rootVars>>

\* the iterator is exhausted: ev.into_result().map(|()| oks)
Return ==
    /\ pc = "loop"
    /\ pos = Len(input)
    /\ result' = map_to(into_result(ev), oks)
    /\ pc' = "done"
    /\ UNCHANGED <<input, pos, visited, oks, ev, hpos, contents, errs, hpc, hresult,
                 vecVars, rootVars>>

\* the hand-written loop: if let Some(content) = errs.take_error(..) { push }
HandTake ==
    /\ hpc = "loop"
    /\ hpos < Len(input)
    /\ LET t == take_error(errs, input[hpos + 1])
       IN  /\ hpos' = hpos + 1
           /\ errs' = t.self
           /\ contents' = IF t.ret.some THEN Append(contents, t.ret.val) ELSE contents
    /\ UNCHANGED <<input, pos, visited, oks, ev, pc, result, hpc, hresult,
                 vecVars, rootVars>>

\* the hand-written loop: errs.into_result_with(contents)
HandCollapse ==
    /\ hpc = "loop"
    /\ hpos = Len(input)
    /\ hresult' = into_result_with(errs, contents)
    /\ hpc' = "done"
    /\ UNCHANGED <<input, pos, visited, oks, ev, pc, result, hpos, contents, errs,
                 vecVars, rootVars>>

\* ------------------------------------------------------------------------
\* impl Display for ErrorVec<E> (src/src/errorvec.rs)
\* ------------------------------------------------------------------------

Digit == <<"0", "1", "2", "3", "4", "5", "6", "7", "8", "9">>

\* `{}` of a usize: its decimal digits
RECURSIVE to_decimal(_)
to_decimal(n) ==
    IF n < 10 THEN <<Digit[n + 1]>>
    ELSE to_decimal(n \div 10) \o <<Digit[(n % 10) + 1]>>

IsWhitespace(c) == c \in {" ", "\n", "\t", "\r"}

\* str::trim_end
RECURSIVE trim_end(_)
trim_end(s) ==
    IF s = <<>> \/ ~IsWhitespace(s[Len(s)]) THEN s
    ELSE trim_end(SubSeq(s, 1, Len(s) - 1))

\* e.to_string(): the errors of the model are their own messages
to_string(e) == e

\* the body of the for loop of fmt, from the 0-based index i on, f being
\* the text written so far
RECURSIVE fmt_from(_, _, _)
fmt_from(self, i, f) ==
    IF i >= Len(self) THEN f
    ELSE LET total == Len(self)
             edisp == to_string(self[i + 1])
             line  == <<"[", "e", "r", "r", "o", "r", " ">> \o to_decimal(i + 1)
                      \o <<" ", "o", "f", " ">> \o to_decimal(total)
                      \o <<"]", " ">> \o trim_end(edisp) \o <<"\n">>
             sep   == IF i + 1 < total THEN <<"\n">> ELSE <<>>
         IN  fmt_from(self, i + 1, f \o line \o sep)

fmt(self) == fmt_from(self, 0, <<>>)

\* ------------------------------------------------------------------------
\* A container under the public interface of ErrorVec<E>
\* ------------------------------------------------------------------------

\* the success payloads handed to into_result_with
Payloads == SeqsUpTo(OkVals, 1)

\* Default::default, or From<Vec<E>> / FromIterator of a sequence of errors
from_iter(iter) == iter

InitVec ==
    /\ live = TRUE
    /\ appended = FALSE
    /\ \/ /\ vec = default
          /\ origin = "default"
          /\ call = [op |-> "default"]
       \/ /\ vec \in {from_iter(s) : s \in SeqsUpTo(Errs, MaxErrs)}
          /\ origin = "from"
          /\ call = [op |-> "from"]

\* ev.push(e), through DerefMut
Push ==
    /\ live
    /\ Len(vec) < MaxErrs
    /\ \E e \in Errs :
          /\ vec' = push(vec, e)
          /\ call' = [op |-> "push", e |-> e]
    /\ appended' = TRUE
    /\ UNCHANGED <<live, origin, drainVars, rootVars>>

\* ev.pop(), through DerefMut
Pop ==
    /\ live
    /\ vec' = IF Len(vec) = 0 THEN vec ELSE SubSeq(vec, 1, Len(vec) - 1)
    /\ call' = [op |-> "pop",
                ret |-> IF Len(vec) = 0 THEN None ELSE Some(vec[Len(vec)])]
    /\ UNCHANGED <<live, origin, appended, drainVars, rootVars>>

\* ev.is_empty(), through Deref
IsEmpty ==
    /\ live
    /\ call' = [op |-> "is_empty", ret |-> is_empty(vec)]
    /\ UNCHANGED <<vec, live, origin, appended, drainVars, rootVars>>

\* ev.take_error(r)
TakeError ==
    /\ live
    /\ \E r \in Outcomes :
          /\ r.tag = "Err" => Len(vec) < MaxErrs
          /\ LET t == take_error(vec, r)
             IN  /\ vec' = t.self
                 /\ call' = [op |-> "take_error", r |-> r, ret |-> t.ret]
                 /\ appended' = (appended \/ r.tag = "Err")
    /\ UNCHANGED <<live, origin, drainVars, rootVars>>

\* ev.into_result(): the container is moved into the call
IntoResult ==
    /\ live
    /\ call' = [op |-> "into_result", value |-> Unit, ret |-> into_result(vec)]
    /\ live' = FALSE
    /\ UNCHANGED <<vec, origin, appended, drainVars, rootVars>>

\* ev.into_result_with(value): the container is moved into the call
IntoResultWith ==
    /\ live
    /\ \E value \in Payloads :
          call' = [op |-> "into_result_with", value |-> value,
                   ret |-> into_result_with(vec, value)]
    /\ live' = FALSE
    /\ UNCHANGED <<vec, origin, appended, drainVars, rootVars>>

\* a faulty variant: rendering drains the container it renders
DisplayDraining ==
    /\ live
    /\ call' = [op |-> "fmt", out |-> fmt(vec)]
    /\ vec' = IF Len(vec) = 0 THEN vec ELSE SubSeq(vec, 2, Len(vec))
    /\ UNCHANGED <<live, origin, appended, drainVars, rootVars>>

\* ev.to_string(): fmt(&self, f)
Display ==
    /\ live
    /\ call' = [op |-> "fmt", out |-> fmt(vec)]
    /\ UNCHANGED <<vec, live, origin, appended, drainVars, rootVars>>

\* ------------------------------------------------------------------------
\* The ErrorVec<T> of the crate root (src/src/lib.rs)
\* ------------------------------------------------------------------------

\* FromIterator for the crate root's ErrorVec
lib_from_iter(iter) == iter

\* Display for the crate root's ErrorVec
RECURSIVE lib_fmt_from(_, _, _)
lib_fmt_from(self, i, f) ==
    IF i >= Len(self) THEN f
    ELSE LET e == to_string(self[i + 1])
             item == <<"E", "r", "r", "o", "r", " ">> \o to_decimal(i)
                     \o <<":", "\n">> \o e \o <<"\n">> \o <<"\n">>
         IN  lib_fmt_from(self, i + 1, f \o item)

lib_fmt(self) == lib_fmt_from(self, 0, <<>>)

InitRoot ==
    /\ root \in {lib_from_iter(s) : s \in SeqsUpTo(Errs, MaxErrs)}
    /\ rootText = None

\* errors.into_iter().collect::<ErrorVec<_>>()
RootCollect ==
    /\ \E s \in SeqsUpTo(Errs, MaxErrs) : root' = lib_from_iter(s)
    /\ rootText' = None
    /\ UNCHANGED <<drainVars, vecVars>>

\* ev.to_string() on the crate root's ErrorVec
RootDisplay ==
    /\ rootText' = Some(lib_fmt(root))
    /\ UNCHANGED <<root, drainVars, vecVars>>

\* ------------------------------------------------------------------------
\* Specifications
\* ------------------------------------------------------------------------

\* the state of a part of the model that a specification leaves alone
IdleDrain ==
    /\ input = <<>> /\ pos = 0 /\ visited = <<>> /\ oks = <<>> /\ ev = <<>>
    /\ pc = "idle" /\ result = Pending
    /\ hpos = 0 /\ contents = <<>> /\ errs = <<>> /\ hpc = "idle"
    /\ hresult = Pending

IdleVec ==
    /\ vec = <<>> /\ live = FALSE /\ origin = "none" /\ appended = FALSE
    /\ call = [op |-> "none"]

IdleRoot == root = <<>> /\ rootText = None

\* into_errorvec_result and the hand-written loop, on one input
Init == InitDrain /\ IdleVec /\ IdleRoot

Next == ForLoop \/ Return \/ HandTake \/ HandCollapse

Spec == Init /\ [][Next]_vars

\* a container under the public interface of ErrorVec<E>
InitApi == InitVec /\ IdleDrain /\ IdleRoot

NextApi ==
    \/ Push
    \/ Pop
    \/ IsEmpty
    \/ TakeError
    \/ IntoResult
    \/ IntoResultWith
    \/ Display

SpecVec == InitApi /\ [][NextApi]_vars

\* the ErrorVec<T> of the crate root
InitCrateRoot == InitRoot /\ IdleDrain /\ IdleVec

NextCrateRoot == RootCollect \/ RootDisplay

SpecRoot == InitCrateRoot /\ [][NextCrateRoot]_vars

\* ------------------------------------------------------------------------
\* What the properties are stated with
\* ------------------------------------------------------------------------

IsPrefix(a, b) == Len(a) <= Len(b) /\ \A i \in 1..Len(a) : a[i] = b[i]

\* the errors of the Err elements of s, in the order of s
ErrorsIn(s) ==
    LET f == SelectSeq(s, LAMBDA o : o.tag = "Err")
    IN  [i \in 1..Len(f) |-> f[i].err]

\* the payloads of the Ok elements of s, in the order of s
PayloadsIn(s) ==
    LET f == SelectSeq(s, LAMBDA o : o.tag = "Ok")
    IN  [i \in 1..Len(f) |-> f[i].val]

HasFailure(s) == \E i \in 1..Len(s) : s[i].tag = "Err"

\* msg without its trailing whitespace: the prefix of msg that is followed
\* by whitespace only and does not itself end in whitespace
Trimmed(msg) ==
    CHOOSE p \in {SubSeq(msg, 1, k) : k \in 0..Len(msg)} :
        /\ \A i \in (Len(p) + 1)..Len(msg) : IsWhitespace(msg[i])
        /\ p = <<>> \/ ~IsWhitespace(p[Len(p)])

\* the line `[error K of N] <message>`, ended by its newline
ContractBlock(K, N, msg) ==
    <<"[", "e", "r", "r", "o", "r", " ">> \o to_decimal(K)
    \o <<" ", "o", "f", " ">> \o to_decimal(N) \o <<"]", " ">>
    \o Trimmed(msg) \o <<"\n">>

\* the first n blocks of the rendering of self, one empty line between two
\* consecutive blocks, none before the first and none after the last
RECURSIVE ContractBlocks(_, _)
ContractBlocks(self, n) ==
    IF n = 0 THEN <<>>
    ELSE IF n = 1 THEN ContractBlock(1, Len(self), self[1])
    ELSE ContractBlocks(self, n - 1) \o <<"\n">>
         \o ContractBlock(n, Len(self), self[n])

ContractText(self) == ContractBlocks(self, Len(self))

\* ------------------------------------------------------------------------
\* Properties of into_errorvec_result (specification Spec)
\* ------------------------------------------------------------------------

\* C1: into_errorvec_result returns a failure exactly when the input holds
\* an Err; otherwise it returns Ok of the payloads of the input. The empty
\* input gives Ok of the empty list, and a failure carries the container of
\* errors and nothing else.
DrainFailsIffFailure ==
    pc = "done" =>
        /\ result.tag \in {"Ok", "Err"}
        /\ (result.tag = "Err") <=> HasFailure(input)
        /\ result.tag = "Ok" =>
              /\ DOMAIN result = {"tag", "val"}
              /\ result.val = [i \in 1..Len(input) |-> input[i].val]
        /\ result.tag = "Err" =>
              /\ DOMAIN result = {"tag", "err"}
              /\ Len(result.err) >= 1
              /\ \A i \in 1..Len(result.err) : result.err[i] \in Errs
        /\ input = <<>> => result = Ok(<<>>)

\* one failure among successes: the call has returned the failure
DrainFailsIffFailureWitness ==
    /\ pc = "done"
    /\ Len(input) >= 3
    /\ Cardinality({i \in 1..Len(input) : input[i].tag = "Err"}) = 1
    /\ result.tag = "Err"

\* C2: into_errorvec_result does not short-circuit: the elements are taken
\* one by one in input order, each once, those after the first Err
\* included, and nothing is returned before the input is exhausted.
DrainNeverShortCircuits ==
    /\ pos <= Len(input)
    /\ visited = [i \in 1..pos |-> i]
    /\ pc = "loop" => result = Pending
    /\ (pc = "done" \/ result # Pending) =>
          /\ pos = Len(input)
          /\ visited = [i \in 1..Len(input) |-> i]

\* the first element is an Err and the elements after it were taken too
DrainNeverShortCircuitsWitness ==
    /\ pc = "done"
    /\ Len(input) >= 3
    /\ input[1].tag = "Err"
    /\ visited = <<1, 2, 3>>

\* C3: the container of a failure holds the errors of the Err elements in
\* input order, each of them, none merged or moved; the list of a success
\* holds the payloads of the Ok elements in input order. The same holds of
\* the two locals after each iteration, for the elements taken so far.
DrainPreservesOrder ==
    /\ ev = ErrorsIn(SubSeq(input, 1, pos))
    /\ oks = PayloadsIn(SubSeq(input, 1, pos))
    /\ pc = "done" =>
          /\ result.tag = "Err" => result.err = ErrorsIn(input)
          /\ result.tag = "Ok" => result.val = PayloadsIn(input)

\* a failure whose input holds the same error twice around a success
DrainPreservesOrderWitness ==
    /\ pc = "done"
    /\ result.tag = "Err"
    /\ Len(input) >= 3
    /\ input[1].tag = "Err" /\ input[2].tag = "Ok" /\ input[3].tag = "Err"
    /\ input[1].err = input[3].err

\* C7: calling take_error once per element by hand and keeping the values
\* it returns builds the container and the list into_errorvec_result builds,
\* after as many elements; into_result_with(list) on the hand-built
\* container returns what into_errorvec_result returns.
TakeErrorEquivalence ==
    /\ hpos = pos => (errs = ev /\ contents = oks)
    /\ (pc = "done" /\ hpc = "done") => hresult = result

\* both have returned a failure, for an input with successes in it
TakeErrorEquivalenceWitness ==
    /\ pc = "done" /\ hpc = "done"
    /\ result.tag = "Err"
    /\ Len(contents) >= 1
    /\ Len(errs) >= 2

\* C8: after each iteration the container and the list of successes hold
\* together as many values as elements were taken; at the return they hold
\* as many as the input has elements.
CountConservation ==
    /\ Len(ev) + Len(oks) = pos
    /\ pc = "done" => Len(ev) + Len(oks) = Len(input)

\* the drain has ended on an input of successes and failures
CountConservationWitness ==
    /\ pc = "done"
    /\ Len(input) >= 3
    /\ Len(ev) >= 1
    /\ Len(oks) >= 1

\* ------------------------------------------------------------------------
\* Properties of the container (specification SpecVec)
\* ------------------------------------------------------------------------

\* C4: into_result_with(value), and into_result with value = (), returns
\* Ok(value) exactly when the container holds no error, and otherwise Err of
\* the container with the errors it held before the call; a container made
\* by default() and never appended to collapses to Ok(value).
CollapseToResult ==
    [][ (live /\ call'.op \in {"into_result", "into_result_with"}) =>
          /\ call'.ret.tag \in {"Ok", "Err"}
          /\ (call'.ret = Ok(call'.value)) <=> (Len(vec) = 0)
          /\ Len(vec) # 0 => call'.ret = Err(vec)
          /\ call'.op = "into_result" => call'.value = Unit
          /\ (origin = "default" /\ ~appended) => call'.ret = Ok(call'.value)
      ]_vars

\* a container of several errors was collapsed with a payload
CollapseToResultWitness ==
    /\ ~live
    /\ call.op = "into_result_with"
    /\ call.value # <<>>
    /\ call.ret.tag = "Err"
    /\ Len(call.ret.err) >= 2

\* C6: take_error on Ok(v) returns Some(v) and leaves the container as it
\* was; on Err(e) it returns None, and the container is one longer, ends in
\* e, and holds the errors it held at the places they were.
TakeErrorFrame ==
    [][ (live /\ call'.op = "take_error") =>
          LET r == call'.r
          IN  /\ r.tag = "Ok" => (call'.ret = Some(r.val) /\ vec' = vec)
              /\ r.tag = "Err" =>
                    /\ call'.ret = None
                    /\ Len(vec') = Len(vec) + 1
                    /\ vec'[Len(vec')] = r.err
                    /\ \A i \in 1..Len(vec) : vec'[i] = vec[i]
      ]_vars

\* take_error has appended to a container that held errors
TakeErrorFrameWitness ==
    /\ call.op = "take_error"
    /\ call.r.tag = "Err"
    /\ Len(vec) >= 3
    /\ vec[1] # vec[3]

\* C9, as claimed: every step the public interface allows on a live
\* container leaves the errors held before as a prefix of those held after.
AppendOnly == [][IsPrefix(vec, vec')]_vars

\* C9, amended: every step made by take_error, push, is_empty, the
\* rendering or a collapse leaves the errors held before as a prefix of
\* those held after and adds at most one; pop, which the interface exposes
\* through DerefMut, removes the last error and no other.
AppendOnlyButPop ==
    [][ /\ call'.op \in {"take_error", "push", "is_empty", "fmt",
                         "into_result", "into_result_with"} =>
              (IsPrefix(vec, vec') /\ Len(vec') <= Len(vec) + 1)
        /\ call'.op = "pop" =>
              (IsPrefix(vec', vec) /\ Len(vec') >= Len(vec) - 1)
      ]_vars

\* push has appended to a container that held errors
AppendOnlyButPopWitness ==
    /\ call.op = "push"
    /\ Len(vec) >= 3
    /\ vec[1] # vec[3]

\* C10: rendering leaves the container as it was, and a rendering that
\* follows a rendering gives the same text.
IdempotentRendering ==
    [][ (live /\ call'.op = "fmt") =>
          /\ vec' = vec
          /\ call.op = "fmt" => call'.out = call.out
      ]_vars

\* a container of several errors was rendered
IdempotentRenderingWitness ==
    /\ live
    /\ call.op = "fmt"
    /\ Len(vec) >= 2
    /\ Len(call.out) > 0

\* the Display of src/src/errorvec.rs writes the text of the rendering
\* contract
ErrorvecRsRendering ==
    (call.op = "fmt" /\ Len(vec) >= 1) => call.out = ContractText(vec)

\* ------------------------------------------------------------------------
\* Properties of the crate root's ErrorVec (specification SpecRoot)
\* ------------------------------------------------------------------------

\* C5: the rendering of a container of N >= 1 errors is N blocks in
\* insertion order, the K-th being `[error K of N] <message>` with the
\* message's trailing whitespace removed, one empty line between two blocks
\* and none before the first or after the last; stated of the ErrorVec the
\* crate root declares.
RenderingContract ==
    (rootText.some /\ Len(root) >= 1) => rootText.val = ContractText(root)

====
